---- MODULE Spec2Model ----
(***************************************************************************)
(* Model of the transaction replayer of r00ster91/transactions.            *)
(*                                                                         *)
(* handle_transactions (src/src/main.rs) folds the parsed records, in      *)
(* input order, into a map ClientID -> Account, consulting and then        *)
(* extending a map TransactionID -> Transaction of the records processed   *)
(* so far.  Transaction::process (src/src/transaction.rs) is the per-kind  *)
(* mutation of one account.                                                *)
(*                                                                         *)
(* Amounts are f32 in the source.  They are modelled as integers: one unit *)
(* is one step of the fixed-point scale of the input, and on such values   *)
(* the additions and subtractions of the source are exact.                 *)
(***************************************************************************)
EXTENDS Integers, Sequences, FiniteSets, TLC

\* ---------------------------------------------------------------- bounds
\* Number of rows below the header that the reader yields.
MaxRows == 2
\* Number of records of the input the replay loop takes.
MaxRecords == 4
\* Largest amount of a deposit or withdrawal row.
MaxAmount == 2

\* Client and transaction ids of the input rows (u16 and u32 in the source).
Clients == {1, 2}
TxIds == {1, 2}
\* Amounts of deposit and withdrawal rows.
Amounts == 1..MaxAmount
\* Amounts of dispute, resolve and chargeback rows: the column is normally
\* empty (0), but the parser accepts a number there as well.
RefAmounts == {0, 1}

\* ------------------------------------------------------------ data model
Deposit == "Deposit"
Withdrawal == "Withdrawal"
Dispute == "Dispute"
Resolve == "Resolve"
Chargeback == "Chargeback"

TransactionType == {Deposit, Withdrawal, Dispute, Resolve, Chargeback}
RefTypes == {Dispute, Resolve, Chargeback}

\* struct Transaction
Transaction(ty, client_id, id, amount) ==
    [ty |-> ty, client_id |-> client_id, id |-> id, amount |-> amount]

\* #[derive(Default)] struct Account
AccountDefault == [available |-> 0, held |-> 0, total |-> 0, locked |-> FALSE]

\* Placeholder of the loop variable before the first iteration.
NoTransaction == [ty |-> "None", client_id |-> 0, id |-> 0, amount |-> 0]

VARIABLES
    accounts,                \* HashMap<ClientID, Account> of handle_transactions
    processed_transactions,  \* HashMap<TransactionID, Transaction>
    transaction,             \* the record of the last loop iteration
    taken,                   \* number of loop iterations started
    panicked,                \* a debug assertion of process failed
    debug_assertions,        \* the build evaluates debug_assert_eq!
    seen,                    \* history: client ids of the records taken
    scenario,                \* history: progress of deposit/dispute/settle
    solo                     \* history: each client's records replayed alone

VARIABLES
    fresh,                   \* history: the last record, a Dispute of a new id
    minted,                  \* history: tx ids of the deposits and withdrawals
    unique,                  \* history: no such tx id was used twice
    moves                    \* history: per tx id, its Disputes and their effect

VARIABLES
    rows_read,               \* parse_transactions: rows taken from the reader
    row,                     \* parse_transactions: the row taken last
    judged,                  \* history: were rows invalid, were rows refused
    parsed,                  \* parse_transactions: Vec<Transaction>
    pc,                      \* main: the step the run is at
    stdout,                  \* main: what print! has written
    stderr,                  \* main: what eprintln! has written
    exit_code                \* main: the ExitCode returned

\* The history variables of the replay that Spec and SpecBeside do not follow.
audit == <<fresh, minted, unique, moves>>

\* The state of main and parse_transactions around the replay.
batch == <<rows_read, row, judged, parsed, pc, stdout, stderr, exit_code>>

vars == <<accounts, processed_transactions, transaction, taken, panicked,
          debug_assertions, seen, scenario, solo, audit, batch>>

\* HashMap::insert
MapInsert(map, key, value) ==
    IF key \in DOMAIN map
    THEN [map EXCEPT ![key] = value]
    ELSE map @@ (key :> value)

\* HashMap::entry(key).or_insert_with(Account::default)
OrInsertDefault(map, key) ==
    IF key \in DOMAIN map THEN map ELSE map @@ (key :> AccountDefault)

\* debug_assert_eq!(self.amount, 0.0) of the Dispute, Resolve and Chargeback
\* arms: evaluated only in a build with debug assertions.
DebugAssertFails(self) ==
    /\ debug_assertions
    /\ self.ty \in RefTypes
    /\ self.amount # 0

\* Variant of ProcessDeposit: a locked account refuses the deposit.
ProcessDepositUnlessLocked(self, account) ==
    IF account.locked
    THEN account
    ELSE [account EXCEPT !.available = @ + self.amount,
                         !.total = @ + self.amount]

ProcessDeposit(self, account) ==
    [account EXCEPT !.available = @ + self.amount,
                    !.total = @ + self.amount]

\* Variant of ProcessWithdrawal: the funds check admits a result of zero.
ProcessWithdrawalToZero(self, account) ==
    LET result == account.available - self.amount
    IN  IF result >= 0
        THEN [account EXCEPT !.available = result, !.total = result]
        ELSE account

ProcessWithdrawal(self, account) ==
    LET result == account.available - self.amount
    IN  IF result > 0
        THEN [account EXCEPT !.available = result, !.total = result]
        ELSE account

\* Variant of ProcessDispute: only an indexed Deposit can be disputed.
ProcessDisputeDepositsOnly(self, account, past_transactions) ==
    IF /\ self.id \in DOMAIN past_transactions
       /\ past_transactions[self.id].ty = Deposit
    THEN LET disputed_amount == past_transactions[self.id].amount
         IN  [account EXCEPT !.available = @ - disputed_amount,
                             !.held = @ + disputed_amount]
    ELSE account

\* Variant of ProcessDispute: the two balances are updated with the signs
\* exchanged.
ProcessDisputeReversed(self, account, past_transactions) ==
    IF self.id \in DOMAIN past_transactions
    THEN LET disputed_amount == past_transactions[self.id].amount
         IN  [account EXCEPT !.available = @ + disputed_amount,
                             !.held = @ - disputed_amount]
    ELSE account

\* Variant of ProcessDispute: a dispute of an unknown id holds the amount of
\* the dispute row itself.
ProcessDisputeOwnAmount(self, account, past_transactions) ==
    LET disputed_amount ==
            IF self.id \in DOMAIN past_transactions
            THEN past_transactions[self.id].amount
            ELSE self.amount
    IN  [account EXCEPT !.available = @ - disputed_amount,
                        !.held = @ + disputed_amount]

ProcessDispute(self, account, past_transactions) ==
    IF self.id \in DOMAIN past_transactions
    THEN LET disputed_amount == past_transactions[self.id].amount
         IN  [account EXCEPT !.available = @ - disputed_amount,
                             !.held = @ + disputed_amount]
    ELSE account

\* Variant of ProcessResolve: the kind of the indexed record is not checked.
ProcessResolveAnyKind(self, account, past_transactions) ==
    IF self.id \in DOMAIN past_transactions
    THEN LET non_disputed_amount == past_transactions[self.id].amount
         IN  [account EXCEPT !.held = @ - non_disputed_amount,
                             !.available = @ + non_disputed_amount]
    ELSE account

\* Variant of ProcessResolve: the arm also sets the lock, as the Chargeback
\* arm does.
ProcessResolveLocks(self, account, past_transactions) ==
    IF /\ self.id \in DOMAIN past_transactions
       /\ past_transactions[self.id].ty = Dispute
    THEN LET non_disputed_amount == past_transactions[self.id].amount
         IN  [account EXCEPT !.held = @ - non_disputed_amount,
                             !.available = @ + non_disputed_amount,
                             !.locked = TRUE]
    ELSE account

ProcessResolve(self, account, past_transactions) ==
    IF /\ self.id \in DOMAIN past_transactions
       /\ past_transactions[self.id].ty = Dispute
    THEN LET non_disputed_amount == past_transactions[self.id].amount
         IN  [account EXCEPT !.held = @ - non_disputed_amount,
                             !.available = @ + non_disputed_amount]
    ELSE account

\* Variant of ProcessChargeback: the kind of the indexed record is not checked.
ProcessChargebackAnyKind(self, account, past_transactions) ==
    IF self.id \in DOMAIN past_transactions
    THEN LET disputed_amount == past_transactions[self.id].amount
         IN  [account EXCEPT !.held = @ - disputed_amount,
                             !.total = @ - disputed_amount,
                             !.locked = TRUE]
    ELSE account

ProcessChargeback(self, account, past_transactions) ==
    IF /\ self.id \in DOMAIN past_transactions
       /\ past_transactions[self.id].ty = Dispute
    THEN LET disputed_amount == past_transactions[self.id].amount
         IN  [account EXCEPT !.held = @ - disputed_amount,
                             !.total = @ - disputed_amount,
                             !.locked = TRUE]
    ELSE account

\* Transaction::process, on a record that passes its debug assertion.
Process(self, account, past_transactions) ==
    CASE self.ty = Deposit -> ProcessDeposit(self, account)
      [] self.ty = Withdrawal -> ProcessWithdrawal(self, account)
      [] self.ty = Dispute -> ProcessDispute(self, account, past_transactions)
      [] self.ty = Resolve -> ProcessResolve(self, account, past_transactions)
      [] self.ty = Chargeback ->
            ProcessChargeback(self, account, past_transactions)

\* Variant of HandleAccounts: the record is processed against every account
\* of the store, not only its client's.
HandleAccountsEvery(accts, self, past_transactions) ==
    LET entered == OrInsertDefault(accts, self.client_id)
    IN  IF DebugAssertFails(self)
        THEN entered
        ELSE [c \in DOMAIN entered |->
                 Process(self, entered[c], past_transactions)]

\* Variant of HandleAccounts: a dispute, resolve or chargeback row of a client
\* without an account is skipped before the entry is created.
HandleAccountsSkipRefs(accts, self, past_transactions) ==
    IF self.ty \in RefTypes /\ self.client_id \notin DOMAIN accts
    THEN accts
    ELSE LET entered == OrInsertDefault(accts, self.client_id)
         IN  IF DebugAssertFails(self)
             THEN entered
             ELSE [entered EXCEPT ![self.client_id] =
                      Process(self, entered[self.client_id],
                              past_transactions)]

\* The account map after one iteration of the loop of handle_transactions:
\* the entry of the record's client is created if missing, then processed.
HandleAccounts(accts, self, past_transactions) ==
    LET entered == OrInsertDefault(accts, self.client_id)
    IN  IF DebugAssertFails(self)
        THEN entered
        ELSE [entered EXCEPT ![self.client_id] =
                 Process(self, entered[self.client_id], past_transactions)]

\* Variant of HandleIndex: only deposits and withdrawals are indexed.
HandleIndexMonetaryOnly(past_transactions, self) ==
    IF DebugAssertFails(self) \/ self.ty \in RefTypes
    THEN past_transactions
    ELSE MapInsert(past_transactions, self.id, self)

\* The history index after one iteration: the record is inserted under its
\* own id, whatever its kind, unless process panicked before.
HandleIndex(past_transactions, self) ==
    IF DebugAssertFails(self)
    THEN past_transactions
    ELSE MapInsert(past_transactions, self.id, self)

\* ------------------------------------------------------ history variables
\* Progress of the record pattern Deposit(t), Dispute(t), then Resolve(t) or
\* Chargeback(t), then one more Resolve(t) or Chargeback(t), all of one client
\* and in consecutive iterations.  pre, mid and post are that client's account
\* before the Dispute, after the Dispute and after the third record.
ScenarioIdle ==
    [stage |-> "idle", client_id |-> 0, id |-> 0, amount |-> 0,
     pre |-> AccountDefault, mid |-> AccountDefault, post |-> AccountDefault]

Follows(sc, self, ty) ==
    /\ self.ty = ty
    /\ self.client_id = sc.client_id
    /\ self.id = sc.id

NextScenario(sc, self, before, after) ==
    CASE DebugAssertFails(self) -> ScenarioIdle
      [] self.ty = Deposit ->
            [ScenarioIdle EXCEPT !.stage = "deposited",
                                 !.client_id = self.client_id,
                                 !.id = self.id,
                                 !.amount = self.amount]
      [] sc.stage = "deposited" /\ Follows(sc, self, Dispute) ->
            [sc EXCEPT !.stage = "disputed",
                       !.pre = before[self.client_id],
                       !.mid = after[self.client_id]]
      [] sc.stage = "disputed" /\ Follows(sc, self, Resolve) ->
            [sc EXCEPT !.stage = "resolved", !.post = after[self.client_id]]
      [] sc.stage = "disputed" /\ Follows(sc, self, Chargeback) ->
            [sc EXCEPT !.stage = "chargedback",
                       !.post = after[self.client_id]]
      [] /\ sc.stage = "chargedback"
         /\ (Follows(sc, self, Resolve) \/ Follows(sc, self, Chargeback)) ->
            [sc EXCEPT !.stage = "settled_again"]
      [] OTHER -> ScenarioIdle

\* The replay of the records of one client alone: the same loop body, run on
\* a store and an index that only this client's records reach.
SoloEmpty == [accounts |-> <<>>, past |-> <<>>]

NextSolo(so, self) ==
    [so EXCEPT ![self.client_id] =
        [accounts |-> HandleAccounts(@.accounts, self, @.past),
         past |-> HandleIndex(@.past, self)]]

\* The last record processed was a Dispute naming a tx id that no earlier
\* record used; pre is the account of its client before that Dispute.
FreshNone ==
    [active |-> FALSE, client_id |-> 0, id |-> 0, pre |-> AccountDefault]

NextFresh(self, before, past_transactions) ==
    IF /\ ~DebugAssertFails(self)
       /\ self.ty = Dispute
       /\ self.id \notin DOMAIN past_transactions
    THEN [active |-> TRUE, client_id |-> self.client_id, id |-> self.id,
          pre |-> before[self.client_id]]
    ELSE FreshNone

\* Per tx id: how many Dispute records named it, and how many of them changed
\* a balance.
NoMoves == [disputed |-> 0, moved |-> 0]

NextMoves(mv, self, before, after) ==
    IF self.ty = Dispute /\ ~DebugAssertFails(self)
    THEN [mv EXCEPT ![self.id] =
            [disputed |-> @.disputed + 1,
             moved |-> IF after[self.client_id] = before[self.client_id]
                       THEN @.moved
                       ELSE @.moved + 1]]
    ELSE mv

\* Exit status of a run that has not returned.
NoExit == "none"

\* A row of the reader: io::Result<String>, the string split at its commas.
ReadRow(columns) == [ok |-> TRUE, columns |-> columns]
Unreadable == [ok |-> FALSE, columns |-> <<>>]

\* No row has been taken from the reader.
NoRow == ReadRow(<<>>)

\* Of the rows taken so far: was one invalid as the specification words it
\* (stated), was one an error of Transaction::parse or of the reader (fatal).
NotJudged == [stated |-> FALSE, fatal |-> FALSE]

\* ---------------------------------------------------------------- actions
Init ==
    /\ accounts = <<>>
    /\ processed_transactions = <<>>
    /\ transaction = NoTransaction
    /\ taken = 0
    /\ panicked = FALSE
    /\ debug_assertions \in BOOLEAN
    /\ seen = {}
    /\ scenario = ScenarioIdle
    /\ solo = [c \in Clients |-> SoloEmpty]
    /\ fresh = FreshNone
    /\ minted = {}
    /\ unique = TRUE
    /\ moves = [t \in TxIds |-> NoMoves]
    /\ rows_read = 0
    /\ row = NoRow
    /\ judged = NotJudged
    /\ parsed = <<>>
    /\ pc = "replay"
    /\ stdout = <<>>
    /\ stderr = <<>>
    /\ exit_code = NoExit

\* One iteration of `for transaction in transactions` on the record self:
\* the program's own state.
LoopBody(self) ==
    /\ ~panicked
    /\ taken < MaxRecords
    /\ taken' = taken + 1
    /\ transaction' = self
    /\ accounts' = HandleAccounts(accounts, self, processed_transactions)
    /\ processed_transactions' = HandleIndex(processed_transactions, self)
    /\ panicked' = DebugAssertFails(self)
    /\ seen' = seen \cup {self.client_id}
    /\ UNCHANGED debug_assertions

\* The iteration, observed by the scenario history.
Iterate(self) ==
    /\ LoopBody(self)
    /\ scenario' = NextScenario(scenario, self,
                                OrInsertDefault(accounts, self.client_id),
                                accounts')
    /\ UNCHANGED <<solo, audit, batch>>

DepositRow ==
    \E c \in Clients, t \in TxIds, a \in Amounts :
        Iterate(Transaction(Deposit, c, t, a))

WithdrawalRow ==
    \E c \in Clients, t \in TxIds, a \in Amounts :
        Iterate(Transaction(Withdrawal, c, t, a))

DisputeRow ==
    \E c \in Clients, t \in TxIds, a \in RefAmounts :
        Iterate(Transaction(Dispute, c, t, a))

ResolveRow ==
    \E c \in Clients, t \in TxIds, a \in RefAmounts :
        Iterate(Transaction(Resolve, c, t, a))

ChargebackRow ==
    \E c \in Clients, t \in TxIds, a \in RefAmounts :
        Iterate(Transaction(Chargeback, c, t, a))

Next ==
    \/ DepositRow
    \/ WithdrawalRow
    \/ DisputeRow
    \/ ResolveRow
    \/ ChargebackRow

Spec == Init /\ [][Next]_vars

\* The same iteration, run side by side with the replay of each client's own
\* records alone.
IterateBeside(self) ==
    /\ LoopBody(self)
    /\ solo' = NextSolo(solo, self)
    /\ UNCHANGED <<scenario, audit, batch>>

DepositBeside ==
    \E c \in Clients, t \in TxIds, a \in Amounts :
        IterateBeside(Transaction(Deposit, c, t, a))

WithdrawalBeside ==
    \E c \in Clients, t \in TxIds, a \in Amounts :
        IterateBeside(Transaction(Withdrawal, c, t, a))

DisputeBeside ==
    \E c \in Clients, t \in TxIds, a \in RefAmounts :
        IterateBeside(Transaction(Dispute, c, t, a))

ResolveBeside ==
    \E c \in Clients, t \in TxIds, a \in RefAmounts :
        IterateBeside(Transaction(Resolve, c, t, a))

ChargebackBeside ==
    \E c \in Clients, t \in TxIds, a \in RefAmounts :
        IterateBeside(Transaction(Chargeback, c, t, a))

NextBeside ==
    \/ DepositBeside
    \/ WithdrawalBeside
    \/ DisputeBeside
    \/ ResolveBeside
    \/ ChargebackBeside

SpecBeside == Init /\ [][NextBeside]_vars

\* The rows the replay can be handed.
MonetaryRows ==
    {Transaction(ty, c, t, a) :
        ty \in {Deposit, Withdrawal}, c \in Clients, t \in TxIds, a \in Amounts}

ReferenceRows ==
    {Transaction(ty, c, t, a) :
        ty \in RefTypes, c \in Clients, t \in TxIds, a \in RefAmounts}

\* Dispute, resolve and chargeback rows as the input is meant to carry them:
\* with an empty amount column.
PlainReferenceRows == {self \in ReferenceRows : self.amount = 0}

\* The iteration, observed by the history of Disputes of new tx ids.
IterateFresh(self) ==
    /\ LoopBody(self)
    /\ fresh' = NextFresh(self, OrInsertDefault(accounts, self.client_id),
                          processed_transactions)
    /\ UNCHANGED <<scenario, solo, minted, unique, moves, batch>>

MonetaryFresh == \E self \in MonetaryRows : IterateFresh(self)

ReferenceFresh == \E self \in ReferenceRows : IterateFresh(self)

NextOfFresh ==
    \/ MonetaryFresh
    \/ ReferenceFresh

SpecFresh == Init /\ [][NextOfFresh]_vars

\* The iteration on an input whose dispute, resolve and chargeback rows carry
\* amount 0, observed by the history of the tx ids and of their Disputes.
IterateProviso(self) ==
    /\ LoopBody(self)
    /\ minted' = IF self.ty \in RefTypes THEN minted
                 ELSE minted \cup {self.id}
    /\ unique' = (unique /\ (self.ty \in RefTypes \/ self.id \notin minted))
    /\ moves' = NextMoves(moves, self,
                          OrInsertDefault(accounts, self.client_id), accounts')
    /\ UNCHANGED <<scenario, solo, fresh, batch>>

MonetaryProviso == \E self \in MonetaryRows : IterateProviso(self)

ReferenceProviso == \E self \in PlainReferenceRows : IterateProviso(self)

NextOfProviso ==
    \/ MonetaryProviso
    \/ ReferenceProviso

SpecProviso == Init /\ [][NextOfProviso]_vars

\* ------------------------------------------------------- parsing and main
\* Column texts of the input rows.  "70000" is a number beyond u16.
TypeColumns ==
    {"deposit", "withdrawal", "dispute", "resolve", "chargeback", " deposit ",
     "", "  ", "refund"}
ClientColumns == {"1", "2 ", "70000"}
TxColumns == {"1", "x"}
AmountColumns == {"1", "x"}

\* The rows: str::split(',') yields at least one column.
Rows ==
    {ReadRow(<<ty>>) : ty \in TypeColumns}
    \cup {ReadRow(<<ty, c>>) : ty \in TypeColumns, c \in ClientColumns}
    \cup {ReadRow(<<ty, c, t>>) :
            ty \in TypeColumns, c \in ClientColumns, t \in TxColumns}
    \cup {ReadRow(<<ty, c, t, a>>) :
            ty \in TypeColumns, c \in ClientColumns, t \in TxColumns,
            a \in AmountColumns}

\* str::trim on the column texts above.
Trim(str) ==
    CASE str = " deposit " -> "deposit"
      [] str = "2 " -> "2"
      [] str = "  " -> ""
      [] OTHER -> str

Ok(value) == [ok |-> TRUE, value |-> value]
Err(message) == [ok |-> FALSE, value |-> message]

\* Option<Transaction>: a sequence of at most one record.
None == <<>>
Some(value) == <<value>>

\* impl TryFrom<&str> for TransactionType
TypeNames ==
    ("deposit" :> Deposit) @@ ("withdrawal" :> Withdrawal)
    @@ ("dispute" :> Dispute) @@ ("resolve" :> Resolve)
    @@ ("chargeback" :> Chargeback)

TryFromStr(other) ==
    IF other \in DOMAIN TypeNames THEN Ok(TypeNames[other]) ELSE Err("()")

\* str::parse::<u16>, ::<u32> and ::<f32> on the trimmed column texts.
U16Texts == ("1" :> 1) @@ ("2" :> 2)
U32Texts == ("1" :> 1) @@ ("2" :> 2) @@ ("70000" :> 70000)
F32Texts == ("0" :> 0) @@ ("1" :> 1)

ParseClientID(str) ==
    IF str \in DOMAIN U16Texts THEN Ok(U16Texts[str]) ELSE Err("invalid")

ParseTransactionID(str) ==
    IF str \in DOMAIN U32Texts THEN Ok(U32Texts[str]) ELSE Err("invalid")

ParseAmount(str) ==
    IF str \in DOMAIN F32Texts THEN Ok(F32Texts[str]) ELSE Err("invalid")

\* Variant of Parse: a row with an invalid client ID is skipped.
ParseSkipsInvalidClient(input) ==
    IF Trim(input[1]) = ""
    THEN Ok(None)
    ELSE IF ~TryFromStr(Trim(input[1])).ok
    THEN Err("invalid transaction type")
    ELSE IF Len(input) < 2
    THEN Err("no client ID")
    ELSE IF ~ParseClientID(Trim(input[2])).ok
    THEN Ok(None)
    ELSE IF Len(input) < 3
    THEN Err("no transaction ID")
    ELSE IF ~ParseTransactionID(Trim(input[3])).ok
    THEN Err("invalid transaction ID")
    ELSE LET text == IF Len(input) < 4 THEN "0" ELSE input[4]
             amount == ParseAmount(Trim(text))
         IN  Ok(Some(Transaction(TryFromStr(Trim(input[1])).value,
                                 ParseClientID(Trim(input[2])).value,
                                 ParseTransactionID(Trim(input[3])).value,
                                 IF amount.ok THEN amount.value ELSE 0)))

\* Transaction::parse on the columns of one row.
Parse(input) ==
    IF Trim(input[1]) = ""
    THEN Ok(None)
    ELSE IF ~TryFromStr(Trim(input[1])).ok
    THEN Err("invalid transaction type")
    ELSE IF Len(input) < 2
    THEN Err("no client ID")
    ELSE IF ~ParseClientID(Trim(input[2])).ok
    THEN Err("invalid client ID")
    ELSE IF Len(input) < 3
    THEN Err("no transaction ID")
    ELSE IF ~ParseTransactionID(Trim(input[3])).ok
    THEN Err("invalid transaction ID")
    ELSE LET text == IF Len(input) < 4 THEN "0" ELSE input[4]
             amount == ParseAmount(Trim(text))
         IN  Ok(Some(Transaction(TryFromStr(Trim(input[1])).value,
                                 ParseClientID(Trim(input[2])).value,
                                 ParseTransactionID(Trim(input[3])).value,
                                 IF amount.ok THEN amount.value ELSE 0)))

\* One turn of the loop of parse_transactions on the row taken.
ParseRow(taken_row) ==
    IF taken_row.ok THEN Parse(taken_row.columns) ELSE Err("failed reading row")

\* Account::serialize: the five fields of one output line.
Serialize(client_id, account) ==
    <<client_id, account.available, account.held, account.total,
      account.locked>>

\* serialize_accounts, the map iterated in the given order of its keys.
SerializeAccounts(accts, order) ==
    <<"client,available,held,total,locked">>
    \o [i \in 1..Len(order) |-> Serialize(order[i], accts[order[i]])]

\* The orders in which HashMap::iter can visit the keys.
IterationOrders(keys) ==
    {order \in [1..Cardinality(keys) -> keys] :
        \A i, j \in 1..Cardinality(keys) : order[i] = order[j] => i = j}

ExitSuccess == "ExitCode(0)"
ExitFailure == "ExitCode(1)"
ExitPanic == "panic"

\* A row is blank: nothing but white space.
Blank(taken_row) ==
    /\ taken_row.ok
    /\ Len(taken_row.columns) = 1
    /\ Trim(taken_row.columns[1]) = ""

\* A row has an invalid type, client or tx column.
InvalidColumn(taken_row) ==
    \/ Trim(taken_row.columns[1]) \notin DOMAIN TypeNames
    \/ Len(taken_row.columns) < 2
    \/ Trim(taken_row.columns[2]) \notin DOMAIN U16Texts
    \/ Len(taken_row.columns) < 3
    \/ Trim(taken_row.columns[3]) \notin DOMAIN U32Texts

\* The rows that the specification has abort the batch: unreadable, or not
\* blank and with an invalid column.
StatedInvalid(taken_row) ==
    \/ ~taken_row.ok
    \/ ~Blank(taken_row) /\ InvalidColumn(taken_row)

\* The same, except that a row whose type column is empty is passed over
\* whatever its other columns hold.
FatalRow(taken_row) ==
    \/ ~taken_row.ok
    \/ Trim(taken_row.columns[1]) # "" /\ InvalidColumn(taken_row)

InitMain ==
    /\ accounts = <<>>
    /\ processed_transactions = <<>>
    /\ transaction = NoTransaction
    /\ taken = 0
    /\ panicked = FALSE
    /\ debug_assertions \in BOOLEAN
    /\ seen = {}
    /\ scenario = ScenarioIdle
    /\ solo = [c \in Clients |-> SoloEmpty]
    /\ fresh = FreshNone
    /\ minted = {}
    /\ unique = TRUE
    /\ moves = [t \in TxIds |-> NoMoves]
    /\ rows_read = 0
    /\ row = NoRow
    /\ judged = NotJudged
    /\ parsed = <<>>
    /\ pc = "start"
    /\ stdout = <<>>
    /\ stderr = <<>>
    /\ exit_code = NoExit

replay == <<accounts, processed_transactions, transaction, taken, panicked,
            seen>>

\* main returns ExitCode::from(1) after one of its three diagnostics.
Fail(diagnostic) ==
    /\ stderr' = diagnostic
    /\ pc' = "exited"
    /\ exit_code' = ExitFailure

\* main: no argument names a file.
NoFileArgument ==
    /\ pc = "start"
    /\ Fail(<<"no CSV file of transactions provided!">>)
    /\ UNCHANGED <<replay, debug_assertions, scenario, solo, audit,
                   rows_read, row, judged, parsed, stdout>>

\* main: the file cannot be opened.
OpenFails ==
    /\ pc = "start"
    /\ Fail(<<"could not read transactions CSV file!">>)
    /\ UNCHANGED <<replay, debug_assertions, scenario, solo, audit,
                   rows_read, row, judged, parsed, stdout>>

\* parse_transactions: rows.next() drops the row of column names.
SkipHeader ==
    /\ pc = "start"
    /\ pc' = "parse"
    /\ UNCHANGED <<replay, debug_assertions, scenario, solo, audit,
                   rows_read, row, judged, parsed, stdout, stderr,
                   exit_code>>

\* parse_transactions: one turn of `for row in rows`; an error returns from
\* parse_transactions and main, with no record replayed.
TakeRow ==
    /\ pc = "parse"
    /\ rows_read < MaxRows
    /\ \E taken_row \in Rows \cup {Unreadable} :
          LET result == ParseRow(taken_row)
          IN  /\ row' = taken_row
              /\ rows_read' = rows_read + 1
              /\ judged' = [stated |-> judged.stated \/ StatedInvalid(taken_row),
                            fatal |-> judged.fatal \/ FatalRow(taken_row)]
              /\ IF ~result.ok
                 THEN /\ Fail(<<"transactions could not be parsed: ",
                                 result.value>>)
                      /\ UNCHANGED parsed
                 ELSE /\ parsed' = IF result.value = None
                                   THEN parsed
                                   ELSE Append(parsed, result.value[1])
                      /\ UNCHANGED <<pc, stderr, exit_code>>
    /\ UNCHANGED <<replay, debug_assertions, scenario, solo, audit, stdout>>

\* parse_transactions: the reader is at its end; main calls
\* handle_transactions.
EndOfRows ==
    /\ pc = "parse"
    /\ pc' = "replay"
    /\ UNCHANGED <<replay, debug_assertions, scenario, solo, audit,
                   rows_read, row, judged, parsed, stdout, stderr,
                   exit_code>>

\* handle_transactions: one iteration on the next parsed record; a failed
\* debug assertion ends the run.
ReplayRecord ==
    /\ pc = "replay"
    /\ taken < Len(parsed)
    /\ LoopBody(parsed[taken + 1])
    /\ pc' = IF panicked' THEN "exited" ELSE pc
    /\ exit_code' = IF panicked' THEN ExitPanic ELSE exit_code
    /\ UNCHANGED <<scenario, solo, audit, rows_read, row, judged, parsed,
                   stdout, stderr>>

\* main: the accounts are serialized and printed, and main returns
\* ExitCode::from(0).
EmitSnapshot ==
    /\ pc = "replay"
    /\ taken = Len(parsed)
    /\ \E order \in IterationOrders(DOMAIN accounts) :
          stdout' = SerializeAccounts(accounts, order)
    /\ pc' = "exited"
    /\ exit_code' = ExitSuccess
    /\ UNCHANGED <<replay, debug_assertions, scenario, solo, audit,
                   rows_read, row, judged, parsed, stderr>>

NextMain ==
    \/ NoFileArgument
    \/ OpenFails
    \/ SkipHeader
    \/ TakeRow
    \/ EndOfRows
    \/ ReplayRecord
    \/ EmitSnapshot

SpecMain == InitMain /\ [][NextMain]_vars

\* ----------------------------------------------------------------- claims
\* The account of client c in a store, as the loop body sees it after
\* entry(c).or_insert_with(Account::default).
AccountOf(accts, c) ==
    IF c \in DOMAIN accts THEN accts[c] ELSE AccountDefault

\* The step is one loop iteration (and not a stuttering step).
Iterated == taken' = taken + 1

\* C1: after any prefix of any record sequence, every account of the store
\* has total = available + held.
TotalIsAvailablePlusHeld ==
    \A c \in DOMAIN accounts :
        accounts[c].total = accounts[c].available + accounts[c].held

\* C2: Deposit(t, A), Dispute(t), Resolve(t) of one client ends with available
\* and held at their values before the Dispute, and total is changed neither
\* by the Dispute nor by the Resolve.
DisputeResolveRestores ==
    scenario.stage = "resolved" =>
        /\ scenario.post.available = scenario.pre.available
        /\ scenario.post.held = scenario.pre.held
        /\ scenario.mid.total = scenario.pre.total
        /\ scenario.post.total = scenario.mid.total

\* C3: Deposit(t, A), Dispute(t), Chargeback(t) of one client ends with held
\* and total each reduced by A from their disputed values, and locked set.
DisputeChargebackRemoves ==
    scenario.stage = "chargedback" =>
        /\ scenario.post.held = scenario.mid.held - scenario.amount
        /\ scenario.post.total = scenario.mid.total - scenario.amount
        /\ scenario.post.locked

\* C4: after Deposit(t), Dispute(t), Chargeback(t) of one client, a Resolve(t)
\* or a second Chargeback(t) in the next iteration leaves every field of the
\* account unchanged.
SettledAgainIsNoOp ==
    [][(/\ scenario.stage = "chargedback"
        /\ Iterated
        /\ transaction'.ty \in {Resolve, Chargeback}
        /\ transaction'.client_id = scenario.client_id
        /\ transaction'.id = scenario.id)
       => accounts'[scenario.client_id] = accounts[scenario.client_id]]_vars

\* C4 witness: the fourth record of the pattern has been processed, on an
\* account the chargeback locked.
SettledAgainReached ==
    /\ scenario.stage = "settled_again"
    /\ accounts[scenario.client_id].locked
    /\ accounts[scenario.client_id] = scenario.post

\* The step processes a Dispute, Resolve or Chargeback whose id has no entry
\* in the history index.
UnknownReference ==
    /\ Iterated
    /\ transaction'.ty \in RefTypes
    /\ transaction'.id \notin DOMAIN processed_transactions

WithdrawalRule ==
    [][(Iterated /\ transaction'.ty = Withdrawal) =>
        LET c == transaction'.client_id
            a == transaction'.amount
            before == AccountOf(accounts, c)
            v == before.available
        IN  IF a >= v
            THEN accounts'[c] = before
            ELSE /\ accounts'[c].available = v - a
                 /\ before.held = 0 => accounts'[c].total = v - a]_vars

\* C6 witness: a deposit of 2 and then a withdrawal of 1 were processed for
\* one client, and the withdrawal was accepted.
WithdrawalAccepted ==
    /\ taken = 2
    /\ transaction.ty = Withdrawal
    /\ transaction.amount = 1
    /\ DOMAIN processed_transactions = TxIds
    /\ \E t \in TxIds :
          /\ processed_transactions[t].ty = Deposit
          /\ processed_transactions[t].client_id = transaction.client_id
          /\ processed_transactions[t].amount = 2
    /\ accounts[transaction.client_id] =
          [available |-> 1, held |-> 0, total |-> 1, locked |-> FALSE]

\* C7: locked changes from false to true only in a step that processes a
\* Chargeback of that client, and never changes back.
LockedOnlyByChargeback ==
    [][\A c \in Clients :
        LET before == AccountOf(accounts, c).locked
            after == AccountOf(accounts', c).locked
        IN  /\ before => after
            /\ (~before /\ after) =>
                  /\ Iterated
                  /\ transaction'.ty = Chargeback
                  /\ transaction'.client_id = c]_vars

\* C7 witness: a locked account has since received a deposit and is still
\* locked.
LockedSurvivesDeposit ==
    /\ transaction.ty = Deposit
    /\ transaction.client_id \in DOMAIN accounts
    /\ accounts[transaction.client_id].locked
    /\ accounts[transaction.client_id].available > 0

\* C8: the account of a client is determined by the subsequence of that
\* client's records alone: it equals the account the same loop produces when
\* only those records are replayed.
ClientsDoNotInteract ==
    \A c \in DOMAIN accounts : accounts[c] = solo[c].accounts[c]

\* C9: processing one record of client c changes no account but c's; every
\* other client keeps its account, or keeps having none.
OtherAccountsUntouched ==
    [][Iterated =>
        \A d \in Clients \ {transaction'.client_id} :
            /\ (d \in DOMAIN accounts') = (d \in DOMAIN accounts)
            /\ d \in DOMAIN accounts => accounts'[d] = accounts[d]]_vars

\* C9 witness: with both clients holding funded accounts, the last record was
\* a dispute, resolve or chargeback of one of them.
OtherAccountFunded ==
    /\ DOMAIN accounts = Clients
    /\ transaction.ty \in RefTypes
    /\ \A c \in Clients : accounts[c].total > 0
    /\ accounts[transaction.client_id].held > 0

\* C10: the store holds an account for exactly the client ids of the records
\* taken so far, and an account is created, from the default state, by the
\* first record that names its client.
AccountPerClientSeen ==
    [][/\ DOMAIN accounts' = seen'
       /\ \A c \in DOMAIN accounts' \ DOMAIN accounts :
             /\ Iterated
             /\ c = transaction'.client_id
             /\ accounts'[c] =
                   IF panicked'
                   THEN AccountDefault
                   ELSE Process(transaction', AccountDefault,
                                processed_transactions)]_vars

\* C10 witness: both clients have an account, one of them created by a record
\* that changed nothing.
AccountOfNoOpRecord ==
    /\ DOMAIN accounts = Clients
    /\ seen = Clients
    /\ transaction.ty \in RefTypes \cup {Withdrawal}
    /\ accounts[transaction.client_id] = AccountDefault
    /\ \E c \in Clients : accounts[c].available > 0

\* C12: after a record of any kind has been processed the history index maps
\* its tx_id to that record, replacing an earlier entry; every other entry is
\* kept, so the key set only grows, by the tx_ids of the records processed.
\* (A record on which process panics is not processed: the run ends there and
\* the index is left as it was.)
IndexHoldsEveryRecord ==
    [][Iterated =>
        IF panicked'
        THEN processed_transactions' = processed_transactions
        ELSE /\ DOMAIN processed_transactions' =
                    DOMAIN processed_transactions \cup {transaction'.id}
             /\ processed_transactions'[transaction'.id] = transaction'
             /\ \A t \in DOMAIN processed_transactions \ {transaction'.id} :
                    processed_transactions'[t] = processed_transactions[t]
      ]_vars

\* C12 witness: a Dispute record has replaced, under its tx_id, the deposit it
\* disputed.
DisputeReplacedDeposit ==
    /\ scenario.stage = "disputed"
    /\ transaction.ty = Dispute
    /\ processed_transactions[scenario.id] = transaction

\* C13: a Dispute whose tx_id is in the history index moves the amount d of
\* the indexed record from available to held, total and locked unchanged,
\* whatever the kind of that record and whether or not available >= d.  (The
\* Dispute is one process completes: none of its debug assertions fails.)
DisputeMovesIndexedAmount ==
    [][(/\ Iterated
        /\ ~panicked'
        /\ transaction'.ty = Dispute
        /\ transaction'.id \in DOMAIN processed_transactions) =>
        LET c == transaction'.client_id
            before == AccountOf(accounts, c)
            d == processed_transactions[transaction'.id].amount
        IN  accounts'[c] = [before EXCEPT !.available = before.available - d,
                                          !.held = before.held + d]]_vars

\* C13 witness: a withdrawal rejected on an empty account was disputed, and
\* its amount was moved although nothing was available.
RejectedWithdrawalDisputed ==
    /\ taken = 2
    /\ transaction.ty = Dispute
    /\ debug_assertions
    /\ ~panicked
    /\ DOMAIN accounts = {transaction.client_id}
    /\ DOMAIN processed_transactions = {transaction.id}
    /\ accounts[transaction.client_id].available < 0
    /\ accounts[transaction.client_id].held =
          0 - accounts[transaction.client_id].available
    /\ accounts[transaction.client_id].total = 0

\* C14: locked guards nothing: on a locked account a Deposit of a still adds a
\* to available and to total, and a Withdrawal is accepted or rejected by the
\* rule of an unlocked account; held and locked are unchanged.
LockedGuardsNothing ==
    [][(/\ Iterated
        /\ AccountOf(accounts, transaction'.client_id).locked
        /\ transaction'.ty \in {Deposit, Withdrawal}) =>
        LET c == transaction'.client_id
            a == transaction'.amount
            before == accounts[c]
            result == before.available - a
        IN  IF transaction'.ty = Deposit
            THEN accounts'[c] =
                    [before EXCEPT !.available = before.available + a,
                                   !.total = before.total + a]
            ELSE accounts'[c] =
                    IF result > 0
                    THEN [before EXCEPT !.available = result,
                                        !.total = result]
                    ELSE before]_vars

\* C14 witness: a locked account received a deposit and then had a withdrawal
\* accepted.
LockedAccountWithdrawn ==
    /\ transaction.ty = Withdrawal
    /\ transaction.client_id \in DOMAIN accounts
    /\ accounts[transaction.client_id].locked
    /\ accounts[transaction.client_id].available = 1
    /\ \E t \in DOMAIN processed_transactions :
          /\ processed_transactions[t].ty = Deposit
          /\ processed_transactions[t].client_id = transaction.client_id
          /\ processed_transactions[t].amount = 2
    /\ DOMAIN accounts = {transaction.client_id}
    /\ accounts[transaction.client_id].held = 0

\* C15: a Resolve or Chargeback whose tx_id is in the history index, the
\* indexed record not being a Dispute, leaves the account unchanged: no lock,
\* no change of total.
SettleOfUndisputedIsNoOp ==
    [][(/\ Iterated
        /\ transaction'.ty \in {Resolve, Chargeback}
        /\ transaction'.id \in DOMAIN processed_transactions
        /\ processed_transactions[transaction'.id].ty # Dispute) =>
        accounts'[transaction'.client_id] =
            AccountOf(accounts, transaction'.client_id)]_vars

\* C15 witness: a deposit was followed by a Chargeback of the same tx_id,
\* never disputed: the account is not locked and keeps its total.
UndisputedChargebackReached ==
    /\ taken = 2
    /\ ~panicked
    /\ transaction.ty = Chargeback
    /\ DOMAIN processed_transactions = {transaction.id}
    /\ DOMAIN accounts = {transaction.client_id}
    /\ accounts[transaction.client_id].total > 0
    /\ accounts[transaction.client_id].available =
          accounts[transaction.client_id].total
    /\ ~accounts[transaction.client_id].locked

DisputedAmountMovedOnce ==
    unique => \A t \in TxIds : moves[t].moved <= 1

\* C17 witness: a tx id was disputed more than once and only one of the
\* Disputes moved its amount.
DisputedTwiceMovedOnce ==
    /\ unique
    /\ \E t \in TxIds : moves[t].disputed >= 2 /\ moves[t].moved = 1

\* C18: on an input whose dispute, resolve and chargeback rows carry amount 0,
\* held is never negative and no step decreases it.
HeldNeverReleased ==
    [][\A c \in Clients :
        /\ AccountOf(accounts', c).held >= 0
        /\ AccountOf(accounts', c).held >= AccountOf(accounts, c).held]_vars

\* C18 witness: an account still holds its disputed funds after a Resolve or
\* Chargeback of the disputed tx id.
HeldAfterSettle ==
    /\ transaction.ty \in {Resolve, Chargeback}
    /\ moves[transaction.id].moved = 1
    /\ transaction.client_id \in DOMAIN accounts
    /\ accounts[transaction.client_id].held > 0

====
